---- MODULE Spec2Model ----
(***************************************************************************)
(* A model of the safest-walk route generator (get_safest_path.py) and of  *)
(* the service that calls it (app.py).                                     *)
(*                                                                         *)
(* Numbers.  The program computes with floats; the model computes with     *)
(* exact rationals on grids:                                               *)
(*   length      in units of 1/20 m   (L  = 20 * length)                   *)
(*   sum_inc     in units of 1/80     (S  = 80 * sum_inc)                  *)
(*   cnt_cam     in units of 1/20     (C  = 20 * cnt_cam)                  *)
(*   a cost      as a fraction [n, d] of metres                            *)
(* so that  up = 1 + 1.20*sum_inc = (200 + 3*S)/200                        *)
(*          dn = 1 + 0.30*cnt_cam = (200 + 3*C)/200                        *)
(*          length*(up/dn)        = L*(200 + 3*S) / (20*(200 + 3*C))       *)
(*          0.1                   = 2*(200 + 3*C) / (20*(200 + 3*C))       *)
(***************************************************************************)
EXTENDS Integers, Sequences, FiniteSets, TLC

VARIABLES
    \* SpecCost
    row,        \* one row of the edges table (length, sum_inc, cnt_cam, weight)
    prevRow,    \* the row as it was before the last recomputation
    \* SpecGeo: the risk-point loader and the geocode cache
    cacheFile,  \* sources/geocode_cache.csv: [exists, rows], a row is <<q, coord>>
    incFile,    \* whether sources/incidents.csv exists
    incRecords, \* the queries of the incident records, in file order
    camRecords, \* the queries of the camera records, in file order
    gPc,        \* per run: where the run is
    gIdx,       \* per run: the record the loop is at
    gCache,     \* per run: the in-memory cache dict, query -> coordinate or NoCoord
    gPoints,    \* per run: the records that became risk points, <<kind, index, q, coord>>
    gCalls,     \* per run: the provider calls made, per query
    gHint,      \* per run: the proximity hint it gives the provider (its origin)
    \* SpecRun: one run of get_safest_path
    runPc,      \* where the run is
    origin,     \* the request's origin coordinate
    dest,       \* the request's destination coordinate
    G,          \* the graph: per edge its length, Absent when not in the graph
    noRow,      \* the edges of G that the edges table has no row for
    edges,      \* the edges table: per edge its row, NoRow when it has none
    incidents,  \* the loader's resolved incidents, [xy, age]
    cameras,    \* the loader's resolved cameras, their positions
    weightOf,   \* the "weight" attribute of the edges of G
    route,      \* the node sequence the search returned
    runErr,     \* the exception the run raised, "none" if none
    artifact,   \* safest_route.geojson as this run sees it
    artifact0,  \* safest_route.geojson when the run started
    \* SpecCount, SpecDecay, SpecProp: one call of a function or of a step
    prp,        \* the weight propagation of lines 243-257: [pc, g, tbl, out]
    cnt,        \* a call of counts_near_edges: [pc, rows, pts, radius, valued, out]
    dcy,        \* a call of incident_decay: [pc, dt, out]
    \* SpecServe: the service (app.py) and the two generators it calls
    entry,      \* the module Python was started on: "app" or "get_safest_path"
    env,        \* which settings the environment holds: [token, mongo, geokey]
    boot,       \* where module initialisation is
    mongoCalls, \* connections to MongoDB attempted
    httpCalls,  \* HTTP requests attempted (geocoding, street network, routing)
    safeFile,   \* safest_route.geojson: NoArtifact, Truncated, or the route it holds
    shortFile,  \* shortest_route.geojson, likewise
    req         \* per request: [pc, start, end, mode, safeErr, shortErr, safe, short, status]

costVars == <<row, prevRow>>
geoVars  == <<cacheFile, incFile, incRecords, camRecords, gPc, gIdx, gCache, gPoints,
              gCalls, gHint>>
srvVars  == <<entry, env, boot, mongoCalls, httpCalls, safeFile, shortFile, req>>
runVars  == <<runPc, origin, dest, G, noRow, edges, incidents, cameras, weightOf,
              route, runErr, artifact, artifact0>>
fnVars   == <<cnt, dcy, prp>>
vars     == <<costVars, geoVars, srvVars, runVars, fnVars>>

\* An absent cost (the column not computed yet), and an absent row.
NoWeight == [n |-> 0, d |-> 0]
NoRow    == [length |-> -1, sum_inc |-> 0, cnt_cam |-> 0, weight |-> NoWeight]

Max(a, b) == IF a >= b THEN a ELSE b
Min(a, b) == IF a <= b THEN a ELSE b

(***************************************************************************)
(* Exact comparison of two non-negative fractions a/b and c/d (b, d > 0)   *)
(* by their continued-fraction expansions, so that no product is formed.   *)
(***************************************************************************)
RECURSIVE RatLess(_, _, _, _)
RatLess(a, b, c, d) ==
    LET q1 == a \div b
        q2 == c \div d
        r1 == a % b
        r2 == c % d
    IN  IF q1 # q2 THEN q1 < q2
        ELSE IF r2 = 0 THEN FALSE
        ELSE IF r1 = 0 THEN TRUE
        ELSE RatLess(d, r2, b, r1)

FracLess(x, y) == RatLess(x.n, x.d, y.n, y.d)
FracEq(x, y)   == ~FracLess(x, y) /\ ~FracLess(y, x)
FracLeq(x, y)  == ~FracLess(y, x)

\* The cost floor 0.1 of edge_cost, as a fraction.
CostFloor == [n |-> 1, d |-> 10]

(***************************************************************************)
(* Night settings (get_safest_path.py lines 40-42).                        *)
(***************************************************************************)
IS_NIGHT == TRUE

\* 80 * (night multiplier applied to a decay weight of dec/20):
\* 80 * (dec/20) * 1.25 = 5*dec at night, 80 * (dec/20) = 4*dec by day.
NightIncWeight(dec) == IF IS_NIGHT THEN 5 * dec ELSE 4 * dec

\* 20 * (cnt_cam after the night multiplier): 20 * n * 1.35 = 27*n, else 20*n.
NightCamCount(n) == IF IS_NIGHT THEN 27 * n ELSE 20 * n

(***************************************************************************)
(* edge_cost (get_safest_path.py lines 230-234), unclamped and clamped.    *)
(***************************************************************************)
UpNum(S) == 200 + 3 * S
DnNum(C) == 200 + 3 * C

\* length * (up / dn)
raw_cost(L, S, C) == [n |-> L * UpNum(S), d |-> 20 * DnNum(C)]

edge_cost_nofloor(L, S, C) == raw_cost(L, S, C)

edge_cost_noinc(L, S, C) ==
    [n |-> Max(L * UpNum(0), 2 * DnNum(C)), d |-> 20 * DnNum(C)]

edge_cost_nocam(L, S, C) ==
    [n |-> Max(L * UpNum(S), 2 * DnNum(0)), d |-> 20 * DnNum(0)]

\* max(0.1, length * (up / dn))
edge_cost(L, S, C) ==
    [n |-> Max(L * UpNum(S), 2 * DnNum(C)), d |-> 20 * DnNum(C)]

(***************************************************************************)
(* The geocode cache and the risk-point loader (get_safest_path.py lines   *)
(* 64-155).  A query is the literal string a record formats to; a          *)
(* coordinate is the (lon, lat) pair the provider gives.                   *)
(***************************************************************************)
Queries == {"q1", "q2", "q3"}
Coords  == {"c1", "c2"}
NoCoord == "none"

\* What the geocoding provider answers: features[0].center, or no feature.
Provider(q) == CASE q = "q1" -> "c1" [] q = "q2" -> "c2" [] OTHER -> NoCoord

RunIds == {1, 2}

\* The most records a batch holds.
MaxRecords == 2

EmptyDict == [q \in Queries |-> NoCoord]
NoFile    == [exists |-> FALSE, rows |-> {}]

\* load_cache: dict(zip(df["q"], zip(df["lon"], df["lat"]))), {} without a file.
load_cache_empty(file) == EmptyDict

load_cache(file) ==
    IF file.exists
    THEN [q \in Queries |->
            IF \E rw \in file.rows : rw[1] = q
            THEN (CHOOSE rw \in file.rows : rw[1] = q)[2]
            ELSE NoCoord]
    ELSE EmptyDict

\* save_cache: nothing for an empty dict, else one row per key, the file rewritten.
save_cache(cache, file) ==
    IF \A q \in Queries : cache[q] = NoCoord
    THEN file
    ELSE [exists |-> TRUE,
          rows   |-> {<<q, cache[q]>> : q \in {k \in Queries : cache[k] # NoCoord}}]

\* coord = cache.get(q) or mapbox_geocode(q, prox): whether the provider is asked.
CacheMiss(cache, q) == cache[q] = NoCoord

\* mapbox_geocode(query, proximity), lines 76-87: the request carries the
\* proximity hint, which biases the provider towards candidates near it; q1 is a
\* query with one candidate near X and another near Y.
Hints == {"X", "Y"}

mapbox_geocode(q, prox) == IF q = "q1" /\ prox = "Y" THEN "c2" ELSE Provider(q)

lookup_or_geocode(cache, q, prox) ==
    IF CacheMiss(cache, q) THEN mapbox_geocode(q, prox) ELSE cache[q]

cache_store_never(cache, q, coord) == cache

\* if coord: cache[q] = coord
cache_store(cache, q, coord) ==
    IF coord # NoCoord THEN [cache EXCEPT ![q] = coord] ELSE cache

BatchSeqs == UNION {[1..n -> Queries] : n \in 0..MaxRecords}

\* The cache files earlier runs can have left: entries the provider gave.
PriorCacheFiles ==
    {NoFile} \cup
    {[exists |-> TRUE, rows |-> {<<q, Provider(q)>> : q \in Q}] :
        Q \in (SUBSET {q \in Queries : Provider(q) # NoCoord}) \ {{}}}

(***************************************************************************)
(* The service: module initialisation of app.py (lines 14-78), which       *)
(* imports the two generators, and the /route handler (lines 188-227).     *)
(* A generator is seen here as the service sees it: it raises, or it       *)
(* rewrites its artifact file with the route of the endpoints it was given *)
(* (get_safest_path.py lines 286-287, get_shortest_path.py lines 97-98).   *)
(* The relative artifact path and BASE_DIR name the same file (the service *)
(* runs in its own directory).                                             *)
(***************************************************************************)
ReqIds == {1, 2}

\* mongoCalls and httpCalls count up to this and stay there.
CallCap == 1

\* What a request gives as start and end: a [lon, lat] pair at a place, a
\* text the geocoder resolves to a place, a text it finds nothing for.
Places == {"A", "B"}
Starts == {"A", "B", "tX"}
Ends   == {"A", "tB", "tX"}
Modes  == {"both", "safest", "shortest"}

IsText(v) == v \notin Places

GeocodeOne_first_place(t) == IF t = "tB" THEN "B" ELSE "A"

\* _mapbox_geocode_one, lines 45-52: the place of features[0].center, or no feature.
GeocodeOne(t) == IF t = "tB" THEN "B" ELSE "none"

\* _to_latlon, lines 60-63: a pair is taken as it is, a text is geocoded.
to_latlon(v) == IF IsText(v) THEN GeocodeOne(v) ELSE v

\* What an artifact file holds, and what a response carries for a route type.
NoArtifact   == <<"absent">>
Truncated    == <<"truncated">>
NoFeature    == <<"unset">>
ErrorFeature == <<"error">>
RouteOf(s, e) == <<"route", s, e>>
IsRoute(f)    == f[1] = "route"

Bump(n, k) == Min(CallCap, n + k)

IdleReq == [pc |-> "idle", start |-> "A", end |-> "A", s |-> "none", e |-> "none",
            mode |-> "both", safeErr |-> FALSE, shortErr |-> FALSE,
            safe |-> NoFeature, short |-> NoFeature, status |-> 0]

token_found_always(e) == TRUE

\* get_safest_path.py lines 26-28: MAPBOX_TOKEN = os.getenv(...); if not MAPBOX_TOKEN: raise
token_found(e) == e.token

\* _load_geojson_file, lines 130-147: the LineString features with coordinates of
\* the file, [] when there is no file, none can be parsed or none has coordinates;
\* then line 212 / 224: the features, else _error_feature.
load_geojson_file(file) == IF IsRoute(file) THEN file ELSE ErrorFeature

(***************************************************************************)
(* One run of get_safest_path (get_safest_path.py lines 189-288).          *)
(*                                                                         *)
(* The street network is what the provider returns: nodes at planar        *)
(* positions (unit: 60 m), directed edges (u, v, key) with a length and a  *)
(* straight geometry from u to v.  The loader's result (read_incidents,    *)
(* read_cameras; see SpecGeo) is a set of resolved incidents, each with    *)
(* the age of its timestamp, and a set of resolved cameras.                *)
(***************************************************************************)
Nodes == 1..4

NodeXY(n) == CASE n = 1 -> <<0, 0>> [] n = 2 -> <<6, 0>>
               [] n = 3 -> <<0, 3>> [] n = 4 -> <<6, 3>>

\* The edges a graph of the family may hold: P1 = 1->2 (two parallel edges),
\* P2 = 1->3->4->2.  A graph without the nodes 2 and 4 snaps both ends of the
\* request to the same node; one without 3->4 has two components.
EdgeSlots == {<<1, 2, 0>>, <<1, 2, 1>>, <<1, 3, 0>>, <<3, 4, 0>>, <<4, 2, 0>>}

\* The lengths (1/20 m) an edge may have.
SlotLengths(e) == CASE e = <<1, 2, 0>> -> {2, 5, 7}
                    [] e = <<1, 2, 1>> -> {5}
                    [] OTHER -> {1, 2}

Absent == NoRow.length

\* A graph: the length of every edge it holds, Absent for the others.
Graphs ==
    {g \in [EdgeSlots -> {Absent} \cup UNION {SlotLengths(e) : e \in EdgeSlots}] :
        \A e \in EdgeSlots : g[e] = Absent \/ g[e] \in SlotLengths(e)}

Present(g) == {e \in EdgeSlots : g[e] # Absent}

\* The nodes of a graph: the ends of its edges.
GNodes(g) == {e[1] : e \in Present(g)} \cup {e[2] : e \in Present(g)}

\* R_CAMERA = 60 and R_INC = 120 metres, in units of 60 m.
R_CAMERA == 1
R_INC    == 2

\* Where a resolved incident or camera may lie, and where a request may start
\* and end.  (3,0) is on P1, (3,-1) is 60 m off P1 outside the edges' bounding
\* box, (3,3) is on P2.
IncSites == {<<3, 0>>, <<3, -1>>, <<3, 3>>}
CamSites == {<<3, 0>>}
Origins  == {<<1, 0>>}
Dests    == {<<5, 0>>}

\* The ages (hours) of an incident's timestamp.
Ages == {0, 12}

\* What parse_time (lines 127-133) gives for a text that is no date, or for no
\* text: None, NaT in the "_t" column.
NaT == -1

\* The resolved incident records a run may meet, by position and by what the
\* timestamp text says: its age in hours, or NaT.
IncidentPool ==
    {[xy |-> <<3, 0>>, age |-> 0], [xy |-> <<3, 0>>, age |-> 12],
     [xy |-> <<3, -1>>, age |-> 0], [xy |-> <<3, 3>>, age |-> 0],
     [xy |-> <<3, 3>>, age |-> NaT]}

\* The most incidents, cameras, and edges without a row of their own.
MaxIncidents == 1
MaxCameras   == 1
MaxMissing   == 1

Sq(x) == x * x
Dist2(p, q) == Sq(p[1] - q[1]) + Sq(p[2] - q[2])

\* Whether the disk of radius r around p intersects the segment from a to b
\* (buffer(radius), then sjoin(..., predicate="intersects")).
DiskMeets(p, r, a, b) ==
    LET abx  == b[1] - a[1]
        aby  == b[2] - a[2]
        t    == (p[1] - a[1]) * abx + (p[2] - a[2]) * aby
        len2 == abx * abx + aby * aby
    IN  IF len2 = 0 \/ t <= 0 THEN Dist2(p, a) <= r * r
        ELSE IF t >= len2 THEN Dist2(p, b) <= r * r
        ELSE Dist2(p, a) * len2 - t * t <= r * r * len2

Near(p, r, e) == DiskMeets(p, r, NodeXY(e[1]), NodeXY(e[2]))

RECURSIVE SumVal(_)
SumVal(pts) ==
    IF pts = {} THEN 0
    ELSE LET p == CHOOSE x \in pts : TRUE IN p.val + SumVal(pts \ {p})

\* The sizes of the joined groups, taken without the guard for no points.
counts_near_edges_size(slots, pts, radius, valued) ==
    [e \in slots |->
        Max(1, Cardinality({p \in pts : Near(p.xy, radius, e)}))]

\* counts_near_edges(edges, pts, radius, values), lines 157-172.  No points: 0
\* for every row.  Else the rows are left-joined with the disks, so that a row
\* no disk intersects stays in the join as one row without a point.  With
\* values, the "_val" of the group of a row are summed (none for the row without
\* a point: 0); without values (values=None), the size of the group is taken.
counts_near_edges(slots, pts, radius, valued) ==
    IF pts = {}
    THEN [e \in slots |-> 0]
    ELSE IF valued
    THEN [e \in slots |-> SumVal({p \in pts : Near(p.xy, radius, e)})]
    ELSE [e \in slots |->
            Max(1, Cardinality({p \in pts : Near(p.xy, radius, e)}))]

\* edges.total_bounds, and inc.cx[minx:maxx, miny:maxy] (lines 214-216).
SetMin(S) == CHOOSE x \in S : \A y \in S : x <= y
SetMax(S) == CHOOSE x \in S : \A y \in S : x >= y
EndsOf(slots) == {NodeXY(e[1]) : e \in slots} \cup {NodeXY(e[2]) : e \in slots}

InBounds(p, slots) ==
    LET xs == {q[1] : q \in EndsOf(slots)}
        ys == {q[2] : q \in EndsOf(slots)}
    IN  /\ SetMin(xs) <= p[1] /\ p[1] <= SetMax(xs)
        /\ SetMin(ys) <= p[2] /\ p[2] <= SetMax(ys)

trim(pts, slots) == {p \in pts : InBounds(p.xy, slots)}

(***************************************************************************)
(* incident_decay (lines 174-179).  dt_val is given by its kind (no         *)
(* datetime; a naive datetime; a datetime with a time zone) and by how many *)
(* hours before now it lies.  The result is the float math.exp(-a / TAU_H), *)
(* given by a (so a = 0 is the result 1.0), or the TypeError that           *)
(* datetime.now() - dt_val raises for a datetime with a time zone.          *)
(***************************************************************************)
TAU_H == 12

DtKinds == {"none", "naive", "aware"}

\* incident_decay, lines 174-179. The result is exp(-a / TAU_H) for the clamped
\* age a in hours; a value that is not a datetime gives 1.0 (a = 0), and a
\* datetime with a time zone makes datetime.now() - dt_val raise TypeError.
incident_decay(dt) ==
    IF dt.kind = "none" THEN [raised |-> FALSE, a |-> 0]
    ELSE IF dt.kind = "aware" THEN [raised |-> TRUE, a |-> 0]
    ELSE [raised |-> FALSE, a |-> Max(dt.age, 0)]

\* math.exp(-x) is 0.0 in double precision for x above 745.13 (in hundredths).
ExpUnderflow == 74513

DecayIsOne(v)  == v.a = 0
DecayIsZero(v) == 100 * v.a > ExpUnderflow * TAU_H

\* A decay weight in twentieths, for the ages of the family: exp(-0/12) = 1, and
\* exp(-12/12) = 0.368 taken as 7/20.
DecayGrid(v) == IF DecayIsOne(v) THEN 20 ELSE 7

read_incidents_points_parsed(recs) ==
    {[xy |-> i.xy, t |-> i.age] : i \in {j \in recs : j.age # NaT}}

\* read_incidents, lines 141-146: every record that has a coordinate becomes a
\* point, with what parse_time gave as its "_t".
read_incidents_points(recs) == {[xy |-> i.xy, t |-> i.age] : i \in recs}

\* Line 219: incident_decay(t) if pd.notna(t) else 1.0, in twentieths.
inc_weight(t) ==
    IF t = NaT THEN 20
    ELSE DecayGrid(incident_decay([kind |-> "naive", age |-> t]))

\* The fraction of a raw length.
LengthFrac(L) == [n |-> L, d |-> 20]

\* The rows of the table for the node pair of edge e: edges.loc[(u, v)], line 247.
Candidates(tbl, e) ==
    {c \in DOMAIN tbl : tbl[c] # NoRow /\ c[1] = e[1] /\ c[2] = e[2]}

\* |candidates["length"] - geom_len|, line 252.
Off(g, tbl, e, c) ==
    IF tbl[c].length >= g[e] THEN tbl[c].length - g[e] ELSE g[e] - tbl[c].length

propagate_first_of_pair(g, tbl, e) ==
    LET cands == Candidates(tbl, e)
    IN  IF cands = {} THEN LengthFrac(g[e])
        ELSE tbl[CHOOSE c \in cands : \A c2 \in cands : c[3] <= c2[3]].weight

propagate_farthest(g, tbl, e) ==
    IF tbl[e] # NoRow THEN tbl[e].weight
    ELSE LET cands == Candidates(tbl, e)
         IN  IF cands = {} THEN LengthFrac(g[e])
             ELSE tbl[CHOOSE c \in cands :
                        \A c2 \in cands :
                            Off(g, tbl, e, c) >= Off(g, tbl, e, c2)].weight

propagate_default_one(g, tbl, e) ==
    IF tbl[e] # NoRow THEN tbl[e].weight
    ELSE LET cands == Candidates(tbl, e)
         IN  IF cands = {} THEN LengthFrac(20)
             ELSE tbl[CHOOSE c \in cands :
                        \A c2 \in cands :
                            Off(g, tbl, e, c) <= Off(g, tbl, e, c2)].weight

\* Lines 243-257, for one edge of G: the weight of its own row; else that of the
\* row for the same (u, v) with the closest length (of rows equally close, the
\* first in the table: sort_values keeps the order of equal keys in a table of
\* a few rows); else, edges.loc[(u, v)] having raised, its own length.
propagate(g, tbl, e) ==
    IF tbl[e] # NoRow THEN tbl[e].weight
    ELSE LET cands == Candidates(tbl, e)
         IN  IF cands = {} THEN LengthFrac(g[e])
             ELSE tbl[CHOOSE c \in cands :
                        \A c2 \in cands :
                            \/ Off(g, tbl, e, c) < Off(g, tbl, e, c2)
                            \/ /\ Off(g, tbl, e, c) = Off(g, tbl, e, c2)
                               /\ c[3] <= c2[3]].weight

\* All costs of a run as whole numbers of 1/CostDen metres.
RECURSIVE GCD(_, _)
GCD(a, b) == IF b = 0 THEN a ELSE GCD(b, a % b)
LCM(a, b) == (a \div GCD(a, b)) * b

RECURSIVE LCMUpTo(_)
LCMUpTo(n) == IF n = 0 THEN DnNum(0) ELSE LCM(LCMUpTo(n - 1), DnNum(NightCamCount(n)))

CostDen == 20 * LCMUpTo(MaxCameras)
Scaled(w) == w.n * (CostDen \div w.d)

\* ox.distance.nearest_nodes: the node of G closest to the point.
nearest_nodes(g, p) ==
    CHOOSE n \in GNodes(g) :
        \A m \in GNodes(g) :
            \/ Dist2(p, NodeXY(n)) < Dist2(p, NodeXY(m))
            \/ Dist2(p, NodeXY(n)) = Dist2(p, NodeXY(m)) /\ n <= m

\* The keys of the parallel edges of g from u to v.
Keys(g, u, v) == {e[3] : e \in {x \in Present(g) : x[1] = u /\ x[2] = v}}

\* The simple paths of g that extend p to d.
RECURSIVE PathsVia(_, _, _)
PathsVia(g, p, d) ==
    IF p[Len(p)] = d THEN {p}
    ELSE UNION {PathsVia(g, Append(p, n), d) :
                  n \in {m \in Nodes \ {p[i] : i \in 1..Len(p)} :
                            Keys(g, p[Len(p)], m) # {}}}

PathsOf(g, o, d) == PathsVia(g, <<o>>, d)

\* The weight the search sees between u and v: the least over the parallel edges.
MinWeight(g, w, u, v) == SetMin({Scaled(w[<<u, v, k>>]) : k \in Keys(g, u, v)})

RECURSIVE PathSum(_, _, _, _)
PathSum(g, w, p, i) ==
    IF i >= Len(p) THEN 0
    ELSE MinWeight(g, w, p[i], p[i + 1]) + PathSum(g, w, p, i + 1)

PathCost(g, w, p) == PathSum(g, w, p, 1)

RECURSIVE PathLenFrom(_, _, _)
PathLenFrom(g, p, i) ==
    IF i >= Len(p) THEN 0
    ELSE SetMin({g[<<p[i], p[i + 1], k>>] : k \in Keys(g, p[i], p[i + 1])})
         + PathLenFrom(g, p, i + 1)

\* The length of a path by its shortest parallel edges.
PathLength(g, p) == PathLenFrom(g, p, 1)

\* Where a search that gives up on the destination would stop.
shortest_paths_truncated(g, w, o, d) ==
    LET ps == IF PathsOf(g, o, d) # {} THEN PathsOf(g, o, d)
              ELSE UNION {PathsOf(g, o, x) : x \in GNodes(g) \ {o}}
    IN  {p \in ps : \A q \in ps : PathCost(g, w, p) <= PathCost(g, w, q)}

\* nx.shortest_path(G, o, d, weight="weight"): a path of least total weight
\* (any of them); none when d cannot be reached.
shortest_paths(g, w, o, d) ==
    LET ps == PathsOf(g, o, d)
    IN  {p \in ps : \A q \in ps : PathCost(g, w, p) <= PathCost(g, w, q)}

route_too_short_never(p) == FALSE

route_too_short_empty(p) == Len(p) < 1

\* Line 263: len(route) < 2.  (The search from a node to itself returns the
\* path of that one node.)
route_too_short(p) == Len(p) < 2

best_parallel_key_last(g, w, u, v) ==
    CHOOSE k \in Keys(g, u, v) :
        \A k2 \in Keys(g, u, v) :
            \/ Scaled(w[<<u, v, k>>]) < Scaled(w[<<u, v, k2>>])
            \/ Scaled(w[<<u, v, k>>]) = Scaled(w[<<u, v, k2>>]) /\ k >= k2

best_parallel_key_first(g, w, u, v) == SetMin(Keys(g, u, v))

\* best_parallel_key, lines 181-184: the key of least weight, the first of them.
best_parallel_key(g, w, u, v) ==
    CHOOSE k \in Keys(g, u, v) :
        \A k2 \in Keys(g, u, v) :
            \/ Scaled(w[<<u, v, k>>]) < Scaled(w[<<u, v, k2>>])
            \/ Scaled(w[<<u, v, k>>]) = Scaled(w[<<u, v, k2>>]) /\ k <= k2

\* trip, line 268.
Trip(g, w, p) == [i \in 1..(Len(p) - 1) |->
                    <<p[i], p[i + 1], best_parallel_key(g, w, p[i], p[i + 1])>>]

RECURSIVE SeqSum(_, _)
SeqSum(f, i) == IF i > Len(f) THEN 0 ELSE f[i] + SeqSum(f, i + 1)

\* WALK_SPEED_MPS, line 54, in hundredths of a metre per second.
WALK_SPEED_MPS == 133

\* time_s, line 270: total_len / WALK_SPEED_MPS in seconds, as a fraction; the
\* length is in twentieths of a metre.
time_s(total_len) == [n |-> 100 * total_len, d |-> 20 * WALK_SPEED_MPS]

Feature_first_key_lengths(g, w, p) ==
    LET trip == Trip(g, w, p)
        first_len == SeqSum([i \in 1..Len(trip) |->
                               g[<<p[i], p[i + 1], SetMin(Keys(g, p[i], p[i + 1]))>>]], 1)
    IN  <<"route", p,
          first_len,
          SeqSum([i \in 1..Len(trip) |-> Scaled(w[trip[i]])], 1),
          time_s(first_len)>>

\* The feature of lines 266-285: the route, length_m (total_len), cost
\* (total_cost) and time_s, the sums taken over the edges of trip.
Feature(g, w, p) ==
    LET trip == Trip(g, w, p)
        total_len  == SeqSum([i \in 1..Len(trip) |-> g[trip[i]]], 1)
        total_cost == SeqSum([i \in 1..Len(trip) |-> Scaled(w[trip[i]])], 1)
    IN  <<"route", p, total_len, total_cost, time_s(total_len)>>

dump_artifact_if_absent(prev, feature) ==
    IF prev = NoArtifact THEN feature ELSE prev

\* Lines 286-287: open(SAVE_GEOJSON, "w") empties the file, json.dump writes a
\* collection of the one feature.
dump_artifact(prev, feature) == feature

\* An artifact left by an earlier run (for another request: no run of the
\* family writes it).
PrevArtifact == <<"route", <<3, 4>>, 2, 0, time_s(2)>>

NoRoute == <<>>


(***************************************************************************)
(* The parts of the state a specification does not use stay as they are    *)
(* here.                                                                   *)
(***************************************************************************)
CostIdle == row = NoRow /\ prevRow = NoRow

NoCall == [pc |-> "off"]
FnIdle == cnt = NoCall /\ dcy = NoCall /\ prp = NoCall

GeoIdle ==
    /\ cacheFile = NoFile
    /\ incFile = FALSE
    /\ incRecords = <<>>
    /\ camRecords = <<>>
    /\ gPc = [r \in RunIds |-> "idle"]
    /\ gIdx = [r \in RunIds |-> 0]
    /\ gCache = [r \in RunIds |-> EmptyDict]
    /\ gPoints = [r \in RunIds |-> <<>>]
    /\ gCalls = [r \in RunIds |-> [q \in Queries |-> 0]]
    /\ gHint = [r \in RunIds |-> "X"]

SrvIdle ==
    /\ entry = "none"
    /\ env = [token |-> TRUE, mongo |-> FALSE, geokey |-> TRUE]
    /\ boot = "off"
    /\ mongoCalls = 0
    /\ httpCalls = 0
    /\ safeFile = NoArtifact
    /\ shortFile = NoArtifact
    /\ req = [r \in ReqIds |-> IdleReq]

RunIdle ==
    /\ runPc = "off"
    /\ origin = <<0, 0>>
    /\ dest = <<0, 0>>
    /\ G = [e \in EdgeSlots |-> Absent]
    /\ edges = [e \in EdgeSlots |-> NoRow]
    /\ noRow = {}
    /\ incidents = {}
    /\ cameras = {}
    /\ weightOf = [e \in EdgeSlots |-> NoWeight]
    /\ route = NoRoute
    /\ runErr = "none"
    /\ artifact = NoArtifact
    /\ artifact0 = NoArtifact


(***************************************************************************)
(* SpecCost: the cost formula applied to one row of the edges table.       *)
(***************************************************************************)
\* Lengths (1/20 m): 0, 5 cm, 10 cm, 15 cm, 1 m, 10 m.
CostLengths == {0, 1, 2, 3, 20, 200}

\* The largest number of incidents and of cameras near the row's edge.
MaxIncNear == 3
ManyCams   == 245

\* sum_inc: k fresh incidents (decay 1.0), or one incident of decay 1/20.
CostSumInc == {NightIncWeight(20) * k : k \in 0..MaxIncNear} \cup {NightIncWeight(1)}

\* cnt_cam: a few cameras, or very many.
CostCntCam == {NightCamCount(n) : n \in {0, 1, 2, 23, ManyCams, ManyCams + 1}}

InitCost ==
    /\ RunIdle
    /\ FnIdle
    /\ \E L \in CostLengths, S \in CostSumInc, C \in CostCntCam :
          row = [length |-> L, sum_inc |-> S, cnt_cam |-> C, weight |-> NoWeight]
    /\ prevRow = NoRow
    /\ GeoIdle
    /\ SrvIdle

\* edges["weight"] = edges.apply(edge_cost, axis=1), for the row.
ApplyEdgeCost ==
    /\ row.weight = NoWeight
    /\ row' = [row EXCEPT !.weight = edge_cost(row.length, row.sum_inc, row.cnt_cam)]
    /\ prevRow' = prevRow
    /\ UNCHANGED <<geoVars, srvVars, runVars, fnVars>>

\* The next run over the same edge: other aggregated values, the cost recomputed.
Reaggregate ==
    /\ row.weight # NoWeight
    /\ \E S \in CostSumInc, C \in CostCntCam :
          row' = [length |-> row.length, sum_inc |-> S, cnt_cam |-> C,
                  weight |-> edge_cost(row.length, S, C)]
    /\ prevRow' = row
    /\ UNCHANGED <<geoVars, srvVars, runVars, fnVars>>

NextCost == ApplyEdgeCost \/ Reaggregate

SpecCost == InitCost /\ [][NextCost]_vars

RawOf(r) == raw_cost(r.length, r.sum_inc, r.cnt_cam)

(***************************************************************************)
(* C1: the cost of a row is at least 0.1 for every length, incident weight *)
(* and camera count, and it is exactly 0.1 whenever length * (up / dn) is  *)
(* below 0.1.                                                              *)
(***************************************************************************)
C1_CostFloor ==
    row.weight # NoWeight =>
        /\ FracLeq(CostFloor, row.weight)
        /\ FracLess(RawOf(row), CostFloor) => FracEq(row.weight, CostFloor)

\* Scenario E: a 10 m edge whose cameras drive length*(up/dn) below 0.1.
C1_Witness ==
    /\ row.weight # NoWeight
    /\ row.length = 200
    /\ FracLess(RawOf(row), CostFloor)

(***************************************************************************)
(* C3 as claimed: with length and camera count unchanged, a larger         *)
(* aggregated incident weight gives a strictly larger cost.                *)
(***************************************************************************)
MoreIncidents ==
    /\ prevRow # NoRow
    /\ row.length = prevRow.length
    /\ row.cnt_cam = prevRow.cnt_cam
    /\ prevRow.sum_inc < row.sum_inc

C3_StrictlyIncreasing ==
    MoreIncidents => FracLess(prevRow.weight, row.weight)

(***************************************************************************)
(* C3 amended: with length and camera count unchanged, a larger aggregated *)
(* incident weight never gives a smaller cost, and gives a strictly larger *)
(* cost whenever length * (up / dn) at the larger weight exceeds 0.1.      *)
(***************************************************************************)
C3_IncreasingAboveFloor ==
    MoreIncidents =>
        /\ FracLeq(prevRow.weight, row.weight)
        /\ FracLess(CostFloor, RawOf(row)) => FracLess(prevRow.weight, row.weight)

C3_Witness ==
    /\ MoreIncidents
    /\ FracLess(CostFloor, RawOf(row))
    /\ FracLess(prevRow.weight, row.weight)

(***************************************************************************)
(* C4: with length and incident weight unchanged, a larger camera count    *)
(* gives a strictly smaller cost as long as length * (up / dn) stays above *)
(* 0.1, the cost stays at exactly 0.1 from then on, and the cost never     *)
(* increases.                                                              *)
(***************************************************************************)
MoreCameras ==
    /\ prevRow # NoRow
    /\ row.length = prevRow.length
    /\ row.sum_inc = prevRow.sum_inc
    /\ prevRow.cnt_cam < row.cnt_cam

C4_DecreasingToFloor ==
    MoreCameras =>
        /\ FracLeq(row.weight, prevRow.weight)
        /\ FracLess(CostFloor, RawOf(row)) => FracLess(row.weight, prevRow.weight)
        /\ FracLeq(RawOf(prevRow), CostFloor) =>
              FracEq(prevRow.weight, CostFloor) /\ FracEq(row.weight, CostFloor)

\* Both cases: a strict decrease above the floor, and a row staying at the floor.
C4_Witness ==
    /\ MoreCameras
    /\ FracLess(CostFloor, RawOf(prevRow))
    /\ FracLeq(RawOf(row), CostFloor)
    /\ row.length = 200
    /\ FracEq(row.weight, CostFloor)


\* One run (run 1) about to load its risk points; run 2 stays idle.
InitGeo ==
    /\ gHint = [r \in RunIds |-> "X"]
    /\ RunIdle
    /\ FnIdle
    /\ CostIdle
    /\ cacheFile \in PriorCacheFiles
    /\ incFile \in BOOLEAN
    /\ incRecords \in BatchSeqs
    /\ camRecords \in BatchSeqs
    /\ gPc = [r \in RunIds |-> IF r = 1 THEN "read_incidents" ELSE "idle"]
    /\ gIdx = [r \in RunIds |-> 0]
    /\ gCache = [r \in RunIds |-> EmptyDict]
    /\ gPoints = [r \in RunIds |-> <<>>]
    /\ gCalls = [r \in RunIds |-> [q \in Queries |-> 0]]
    /\ SrvIdle

GeoFrame == UNCHANGED <<costVars, srvVars, runVars, fnVars,
                        incFile, incRecords, camRecords, gHint>>

\* read_incidents, lines 122-125: no file, no batch; else the cache is loaded.
IncBegin(r) ==
    /\ gPc[r] = "read_incidents"
    /\ IF incFile
       THEN /\ gPc' = [gPc EXCEPT ![r] = "inc_loop"]
            /\ gCache' = [gCache EXCEPT ![r] = load_cache(cacheFile)]
            /\ gIdx' = [gIdx EXCEPT ![r] = 1]
       ELSE /\ gPc' = [gPc EXCEPT ![r] = "read_cameras"]
            /\ UNCHANGED <<gCache, gIdx>>
    /\ UNCHANGED <<cacheFile, gPoints, gCalls>>
    /\ GeoFrame

\* read_cameras, line 90.
CamBegin(r) ==
    /\ gPc[r] = "read_cameras"
    /\ gPc' = [gPc EXCEPT ![r] = "cam_loop"]
    /\ gCache' = [gCache EXCEPT ![r] = load_cache(cacheFile)]
    /\ gIdx' = [gIdx EXCEPT ![r] = 1]
    /\ UNCHANGED <<cacheFile, gPoints, gCalls>>
    /\ GeoFrame

Batch(kind) == IF kind = "inc" THEN incRecords ELSE camRecords
LoopPc(kind) == IF kind = "inc" THEN "inc_loop" ELSE "cam_loop"
SavePc(kind) == IF kind = "inc" THEN "inc_save" ELSE "cam_save"

\* One iteration of the loop (lines 136-146, 103-111) whose provider call, if
\* any, returns: the record resolves from the cache or the provider, or is dropped.
Resolve(r, kind) ==
    /\ gPc[r] = LoopPc(kind)
    /\ gIdx[r] <= Len(Batch(kind))
    /\ LET q     == Batch(kind)[gIdx[r]]
           coord == lookup_or_geocode(gCache[r], q, gHint[r])
       IN  /\ gCalls' = [gCalls EXCEPT ![r][q] =
                            IF CacheMiss(gCache[r], q) THEN @ + 1 ELSE @]
           /\ gCache' = [gCache EXCEPT ![r] = cache_store(@, q, coord)]
           /\ gPoints' = [gPoints EXCEPT ![r] =
                            IF coord # NoCoord
                            THEN Append(@, <<kind, gIdx[r], q, coord>>)
                            ELSE @]
    /\ gIdx' = [gIdx EXCEPT ![r] = @ + 1]
    /\ UNCHANGED <<cacheFile, gPc>>
    /\ GeoFrame

\* One iteration whose provider call fails: requests.get or raise_for_status
\* raises (lines 81-82), nothing catches it, the run ends.
ResolveRaises(r, kind) ==
    /\ gPc[r] = LoopPc(kind)
    /\ gIdx[r] <= Len(Batch(kind))
    /\ LET q == Batch(kind)[gIdx[r]]
       IN  /\ CacheMiss(gCache[r], q)
           /\ gCalls' = [gCalls EXCEPT ![r][q] = @ + 1]
    /\ gPc' = [gPc EXCEPT ![r] = "failed"]
    /\ UNCHANGED <<cacheFile, gIdx, gCache, gPoints>>
    /\ GeoFrame

\* The loop is over: save_cache(cache, GEOCODE_CACHE) (lines 147, 112).
LoopEnd(r, kind) ==
    /\ gPc[r] = LoopPc(kind)
    /\ gIdx[r] > Len(Batch(kind))
    /\ gPc' = [gPc EXCEPT ![r] = SavePc(kind)]
    /\ UNCHANGED <<cacheFile, gIdx, gCache, gPoints, gCalls>>
    /\ GeoFrame

Flush(r, kind) ==
    /\ gPc[r] = SavePc(kind)
    /\ cacheFile' = save_cache(gCache[r], cacheFile)
    /\ gPc' = [gPc EXCEPT ![r] = IF kind = "inc" THEN "read_cameras" ELSE "done"]
    /\ UNCHANGED <<gIdx, gCache, gPoints, gCalls>>
    /\ GeoFrame

\* load_cache, lines 65-67: the file exists and pd.read_csv (or the column
\* lookup) raises; nothing catches it, the run ends.
LoadCacheRaises(r) ==
    /\ \/ gPc[r] = "read_incidents" /\ incFile
       \/ gPc[r] = "read_cameras"
    /\ cacheFile.exists
    /\ gPc' = [gPc EXCEPT ![r] = "cache_failed"]
    /\ UNCHANGED <<cacheFile, gIdx, gCache, gPoints, gCalls>>
    /\ GeoFrame

\* save_cache, lines 71-74: the dict is not empty and to_csv cannot open the
\* file; nothing catches it, the run ends.
FlushRaises(r, kind) ==
    /\ gPc[r] = SavePc(kind)
    /\ \E q \in Queries : gCache[r][q] # NoCoord
    /\ gPc' = [gPc EXCEPT ![r] = "cache_failed"]
    /\ UNCHANGED <<cacheFile, gIdx, gCache, gPoints, gCalls>>
    /\ GeoFrame

GeoRun(r) ==
    \/ IncBegin(r)
    \/ CamBegin(r)
    \/ LoadCacheRaises(r)
    \/ \E kind \in {"inc", "cam"} :
          \/ Resolve(r, kind)
          \/ ResolveRaises(r, kind)
          \/ LoopEnd(r, kind)
          \/ Flush(r, kind)
          \/ FlushRaises(r, kind)

NextGeo == \E r \in RunIds : GeoRun(r)

SpecGeo == InitGeo /\ [][NextGeo]_vars

\* The records of run r, so far, that carry query q and became risk points.
PointsOf(r, q) == {i \in 1..Len(gPoints[r]) : gPoints[r][i][3] = q}

(***************************************************************************)
(* C9 as claimed: within one run the provider is called at most once for   *)
(* every query, also one it cannot resolve.                                *)
(***************************************************************************)
C9_AtMostOnceAnyQuery ==
    \A q \in Queries : gCalls[1][q] <= 1

(***************************************************************************)
(* C9 amended: within one run the provider is called at most once for      *)
(* every query it resolves, and all records with that query get the same   *)
(* coordinate; a query it cannot resolve is sent again for every record    *)
(* that carries it.                                                        *)
(***************************************************************************)
RecordsWith(recs, q) == Cardinality({i \in 1..Len(recs) : recs[i] = q})

C9_AtMostOnceResolved ==
    /\ \A q \in Queries : Provider(q) # NoCoord => gCalls[1][q] <= 1
    /\ \A i, j \in 1..Len(gPoints[1]) :
          gPoints[1][i][3] = gPoints[1][j][3] => gPoints[1][i][4] = gPoints[1][j][4]
    /\ gPc[1] = "done" =>
          \A q \in Queries : Provider(q) = NoCoord =>
             gCalls[1][q] = (IF incFile THEN RecordsWith(incRecords, q) ELSE 0)
                            + RecordsWith(camRecords, q)

\* A query that an incident record and a camera record share, asked once.
C9_Witness ==
    /\ gPc[1] = "done"
    /\ \E q \in Queries :
          /\ gCalls[1][q] = 1
          /\ \E i, j \in PointsOf(1, q) :
                gPoints[1][i][1] = "inc" /\ gPoints[1][j][1] = "cam"

(***************************************************************************)
(* SpecCount: one call of counts_near_edges on rows, points and a radius   *)
(* drawn from bounded families, with values or without.                    *)
(***************************************************************************)
CountPool ==
    {[xy |-> <<3, 0>>, val |-> 100], [xy |-> <<3, -1>>, val |-> 35],
     [xy |-> <<3, 3>>, val |-> 100], [xy |-> <<5, 1>>, val |-> 35]}

\* The most points of a call.
MaxPoints == 2

CountRows == {{<<1, 2, 0>>},
              {<<1, 2, 0>>, <<1, 2, 1>>, <<3, 4, 0>>},
              {<<1, 2, 0>>, <<1, 3, 0>>, <<3, 4, 0>>, <<4, 2, 0>>}}

InitCount ==
    /\ CostIdle
    /\ GeoIdle
    /\ SrvIdle
    /\ RunIdle
    /\ dcy = NoCall
    /\ prp = NoCall
    /\ \E rows \in CountRows, radius \in {R_CAMERA, R_INC}, valued \in BOOLEAN :
         \E pts \in {s \in SUBSET CountPool : Cardinality(s) <= MaxPoints} :
            cnt = [pc |-> "call", rows |-> rows, pts |-> pts, radius |-> radius,
                   valued |-> valued, out |-> [e \in rows |-> 0]]

ApplyCount ==
    /\ cnt.pc = "call"
    /\ cnt' = [cnt EXCEPT
                 !.pc = "returned",
                 !.out = counts_near_edges(cnt.rows, cnt.pts, cnt.radius, cnt.valued)]
    /\ UNCHANGED <<costVars, geoVars, srvVars, runVars, dcy, prp>>

NextCount == ApplyCount

SpecCount == InitCount /\ [][NextCount]_vars

\* The points of the call whose disk intersects row e.
Hits(e) == {p \in cnt.pts : Near(p.xy, cnt.radius, e)}

(***************************************************************************)
(* C13 as claimed: counts_near_edges returns, for every row, the sum of    *)
(* the values of exactly the points whose disk intersects it, or their     *)
(* number when no values are passed, and 0 for a row no disk intersects,   *)
(* in both modes.                                                          *)
(***************************************************************************)
C13_SumOfIntersectingPoints ==
    cnt.pc = "returned" =>
        \A e \in cnt.rows :
            cnt.out[e] = IF cnt.valued THEN SumVal(Hits(e)) ELSE Cardinality(Hits(e))

(***************************************************************************)
(* C11 as claimed: a geocoding failure for one risk record, be it no       *)
(* candidate or a failed provider call, is not fatal: the record is        *)
(* dropped and the run goes on, so no run ends on a provider call.         *)
(***************************************************************************)
C11_GeocodeFailureNonFatal ==
    \A r \in RunIds : gPc[r] # "failed"

(***************************************************************************)
(* C16 as claimed: a failure to read or to write the geocode cache file is *)
(* tolerated, so no run ends on it.                                        *)
(***************************************************************************)
C16_CacheFailureTolerated ==
    \A r \in RunIds : gPc[r] # "cache_failed"

(***************************************************************************)
(* C27: the cache file changes only in the step that ends a batch (the     *)
(* save_cache at the end of read_incidents or read_cameras), never in a    *)
(* resolution; a run that fails in the middle of a batch leaves the file   *)
(* as it was; and a flush keeps every entry the file held, coordinate      *)
(* unchanged.                                                              *)
(***************************************************************************)
C27_FlushOnlyAtBatchEnd ==
    [][/\ cacheFile' # cacheFile =>
            \E kind \in {"inc", "cam"} :
                /\ gPc[1] = SavePc(kind)
                /\ gPc'[1] \in {"read_cameras", "done"}
       /\ (gPc[1] \in {"inc_loop", "cam_loop"} /\ gPc'[1] = "failed") =>
            cacheFile' = cacheFile
       /\ \A rw \in cacheFile.rows : rw \in cacheFile'.rows]_vars

\* The incidents batch has been flushed: the file holds the entry for q1 it
\* held before, which the run never asked the provider, and the new one for q2.
C27_Witness ==
    /\ gPc[1] = "read_cameras"
    /\ incFile
    /\ gCalls[1]["q1"] = 0
    /\ gCalls[1]["q2"] = 1
    /\ cacheFile.rows = {<<"q1", "c1">>, <<"q2", "c2">>}

(***************************************************************************)
(* SpecGeo2: two runs load their risk points at the same time; they read   *)
(* the same record files and share the cache file, and each gives the      *)
(* provider its own origin as the proximity hint.                          *)
(***************************************************************************)
InitGeo2 ==
    /\ RunIdle
    /\ FnIdle
    /\ CostIdle
    /\ SrvIdle
    /\ cacheFile \in PriorCacheFiles
    /\ incFile \in BOOLEAN
    /\ incRecords \in BatchSeqs
    /\ camRecords \in BatchSeqs
    /\ gPc = [r \in RunIds |-> "read_incidents"]
    /\ gIdx = [r \in RunIds |-> 0]
    /\ gCache = [r \in RunIds |-> EmptyDict]
    /\ gPoints = [r \in RunIds |-> <<>>]
    /\ gCalls = [r \in RunIds |-> [q \in Queries |-> 0]]
    /\ gHint \in {h \in [RunIds -> Hints] : h[1] = "X"}

SpecGeo2 == InitGeo2 /\ [][NextGeo]_vars

(***************************************************************************)
(* C18 as claimed: whatever the interleaving of two runs that share the    *)
(* cache file, every entry in the file maps its query to the coordinate    *)
(* that each run holding the query got for it: the entry does not depend   *)
(* on which run wrote it.                                                  *)
(***************************************************************************)
C18_CacheEntriesAgree ==
    \A rw \in cacheFile.rows :
        \A r \in RunIds :
            ~CacheMiss(gCache[r], rw[1]) => gCache[r][rw[1]] = rw[2]

(***************************************************************************)
(* SpecDecay: incident_decay applied to one value: nothing (None or NaT),  *)
(* a datetime without a time zone, or a datetime with one; the age of a    *)
(* datetime, in hours, is near zero on both sides or near the age at which *)
(* exp underflows.                                                         *)
(***************************************************************************)
MaxHours == 12

\* The last age, in whole hours, whose weight is still a positive double.
LastPositiveHour == (ExpUnderflow * TAU_H) \div 100

AgeHours ==
    (-MaxHours .. MaxHours) \cup
    {LastPositiveHour + k : k \in -MaxHours .. MaxHours}

DecayInputs ==
    {[kind |-> "none", age |-> 0]} \cup
    {[kind |-> k, age |-> a] : k \in {"naive", "aware"}, a \in AgeHours}

InitDecay ==
    /\ CostIdle
    /\ GeoIdle
    /\ SrvIdle
    /\ RunIdle
    /\ cnt = NoCall
    /\ prp = NoCall
    /\ \E dt \in DecayInputs :
         dcy = [pc |-> "call", dt |-> dt, out |-> [raised |-> FALSE, a |-> 0]]

ApplyDecay ==
    /\ dcy.pc = "call"
    /\ dcy' = [dcy EXCEPT !.pc = "returned", !.out = incident_decay(dcy.dt)]
    /\ UNCHANGED <<costVars, geoVars, srvVars, runVars, cnt, prp>>

NextDecay == ApplyDecay

SpecDecay == InitDecay /\ [][NextDecay]_vars

(***************************************************************************)
(* C19 as claimed: incident_decay returns a value for every input, the     *)
(* value is exactly 1.0 for an absent timestamp and for one in the future, *)
(* and it is never outside (0, 1].                                         *)
(***************************************************************************)
C19_DecayInUnitInterval ==
    dcy.pc = "returned" =>
        /\ ~dcy.out.raised
        /\ ~DecayIsZero(dcy.out)
        /\ dcy.out.a >= 0
        /\ (dcy.dt.kind = "none" \/ dcy.dt.age <= 0) => DecayIsOne(dcy.out)

(***************************************************************************)
(* SpecServe: Python starts on app.py (or imports get_safest_path alone);  *)
(* once the service is up, requests to /route are handled, each by its own *)
(* thread.                                                                 *)
(***************************************************************************)
InitServe ==
    /\ RunIdle
    /\ FnIdle
    /\ CostIdle
    /\ GeoIdle
    /\ entry \in {"app", "get_safest_path"}
    /\ env \in [token : BOOLEAN, mongo : BOOLEAN, geokey : BOOLEAN]
    /\ boot = IF entry = "app" THEN "mongo" ELSE "import_safest"
    /\ mongoCalls = 0
    /\ httpCalls = 0
    /\ safeFile = NoArtifact
    /\ shortFile = NoArtifact
    /\ req = [r \in ReqIds |-> IdleReq]

SrvFrame == UNCHANGED <<costVars, geoVars, runVars, fnVars, entry, env>>

\* app.py lines 19-37: with MONGODB_URI and MONGO_DB set, connect and ping; a
\* failure is caught and only logged.
BootMongo ==
    /\ boot = "mongo"
    /\ mongoCalls' = IF env.mongo THEN Bump(mongoCalls, 1) ELSE mongoCalls
    /\ boot' = "import_safest"
    /\ UNCHANGED <<httpCalls, safeFile, shortFile, req>>
    /\ SrvFrame

\* app.py line 67 / get_safest_path.py lines 25-28.
ImportSafest ==
    /\ boot = "import_safest"
    /\ boot' = IF ~token_found(env) THEN "config_error"
               ELSE IF entry = "app" THEN "import_shortest" ELSE "imported"
    /\ UNCHANGED <<mongoCalls, httpCalls, safeFile, shortFile, req>>
    /\ SrvFrame

\* app.py line 68 / get_shortest_path.py lines 15-18: sys.exit without GEOAPIFY_KEY.
ImportShortest ==
    /\ boot = "import_shortest"
    /\ boot' = IF env.geokey THEN "serving" ELSE "exit"
    /\ UNCHANGED <<mongoCalls, httpCalls, safeFile, shortFile, req>>
    /\ SrvFrame

\* A POST /route arrives.
Arrive(r) ==
    /\ boot = "serving"
    /\ req[r].pc = "idle"
    /\ \E s \in Starts, e \in Ends, m \in Modes :
          req' = [req EXCEPT ![r] = [IdleReq EXCEPT !.pc = "resolve", !.start = s,
                                                    !.end = e, !.mode = m]]
    /\ UNCHANGED <<boot, mongoCalls, httpCalls, safeFile, shortFile>>
    /\ SrvFrame

FirstGenerator(m) == IF m = "shortest" THEN "shortest" ELSE "safest"

\* route, lines 193-198: start and end are normalised in turn; a text costs one
\* HTTP call (none without a token, which raises first); a text with no feature
\* ends the request with 400.
ResolveEndpoints(r) ==
    /\ req[r].pc = "resolve"
    /\ LET rq    == req[r]
           s     == to_latlon(rq.start)
           e     == to_latlon(rq.end)
           noTok == ~env.token
           sOk   == IF IsText(rq.start) THEN ~noTok /\ s # "none" ELSE TRUE
           eOk   == IF IsText(rq.end) THEN ~noTok /\ e # "none" ELSE TRUE
           calls == (IF IsText(rq.start) /\ ~noTok THEN 1 ELSE 0)
                    + (IF sOk /\ IsText(rq.end) /\ ~noTok THEN 1 ELSE 0)
       IN  /\ httpCalls' = Bump(httpCalls, calls)
           /\ req' = [req EXCEPT ![r] =
                        IF sOk /\ eOk
                        THEN [rq EXCEPT !.pc = FirstGenerator(rq.mode), !.s = s, !.e = e]
                        ELSE [rq EXCEPT !.pc = "done", !.status = 400]]
    /\ UNCHANGED <<boot, mongoCalls, safeFile, shortFile>>
    /\ SrvFrame

\* line 206, get_safest_path raises (street network, risk loading, search): the
\* street-network request may or may not have gone out (osmnx caches responses).
SafestRaises(r) ==
    /\ req[r].pc = "safest"
    /\ \E k \in {0, 1} : httpCalls' = Bump(httpCalls, k)
    /\ req' = [req EXCEPT ![r].pc = "load_safest", ![r].safeErr = TRUE]
    /\ UNCHANGED <<boot, mongoCalls, safeFile, shortFile>>
    /\ SrvFrame

\* line 206, get_safest_path reaches open(SAVE_GEOJSON, "w"), which truncates the
\* file; a route has two nodes at least, so the endpoints are at different places.
SafestOpens(r) ==
    /\ req[r].pc = "safest"
    /\ req[r].s # req[r].e
    /\ \E k \in {0, 1} : httpCalls' = Bump(httpCalls, k)
    /\ safeFile' = Truncated
    /\ req' = [req EXCEPT ![r].pc = "safest_write"]
    /\ UNCHANGED <<boot, mongoCalls, shortFile>>
    /\ SrvFrame

\* json.dump and the close of the file: the artifact holds this request's route.
SafestDumps(r) ==
    /\ req[r].pc = "safest_write"
    /\ safeFile' = RouteOf(req[r].s, req[r].e)
    /\ req' = [req EXCEPT ![r].pc = "load_safest"]
    /\ UNCHANGED <<boot, mongoCalls, httpCalls, shortFile>>
    /\ SrvFrame

\* lines 210-212: whatever the file holds now is the safest feature.
LoadSafest(r) ==
    /\ req[r].pc = "load_safest"
    /\ req' = [req EXCEPT ![r].safe = load_geojson_file(safeFile),
                          ![r].pc = IF req[r].mode = "both" THEN "shortest" ELSE "respond"]
    /\ UNCHANGED <<boot, mongoCalls, httpCalls, safeFile, shortFile>>
    /\ SrvFrame

\* line 218, get_shortest_path raises, after its routing request went out.
ShortestRaises(r) ==
    /\ req[r].pc = "shortest"
    /\ httpCalls' = Bump(httpCalls, 1)
    /\ req' = [req EXCEPT ![r].pc = "load_shortest", ![r].shortErr = TRUE]
    /\ UNCHANGED <<boot, mongoCalls, safeFile, shortFile>>
    /\ SrvFrame

ShortestOpens(r) ==
    /\ req[r].pc = "shortest"
    /\ httpCalls' = Bump(httpCalls, 1)
    /\ shortFile' = Truncated
    /\ req' = [req EXCEPT ![r].pc = "shortest_write"]
    /\ UNCHANGED <<boot, mongoCalls, safeFile>>
    /\ SrvFrame

ShortestDumps(r) ==
    /\ req[r].pc = "shortest_write"
    /\ shortFile' = RouteOf(req[r].s, req[r].e)
    /\ req' = [req EXCEPT ![r].pc = "load_shortest"]
    /\ UNCHANGED <<boot, mongoCalls, httpCalls, safeFile>>
    /\ SrvFrame

\* lines 222-224.
LoadShortest(r) ==
    /\ req[r].pc = "load_shortest"
    /\ req' = [req EXCEPT ![r].short = load_geojson_file(shortFile),
                          ![r].pc = "respond"]
    /\ UNCHANGED <<boot, mongoCalls, httpCalls, safeFile, shortFile>>
    /\ SrvFrame

\* line 227.
Respond(r) ==
    /\ req[r].pc = "respond"
    /\ req' = [req EXCEPT ![r].pc = "done", ![r].status = 200]
    /\ UNCHANGED <<boot, mongoCalls, httpCalls, safeFile, shortFile>>
    /\ SrvFrame

Route(r) ==
    \/ Arrive(r)
    \/ ResolveEndpoints(r)
    \/ SafestRaises(r)
    \/ SafestOpens(r)
    \/ SafestDumps(r)
    \/ LoadSafest(r)
    \/ ShortestRaises(r)
    \/ ShortestOpens(r)
    \/ ShortestDumps(r)
    \/ LoadShortest(r)
    \/ Respond(r)

NextServe ==
    \/ BootMongo
    \/ ImportSafest
    \/ ImportShortest
    \/ \E r \in ReqIds : Route(r)

SpecServe == InitServe /\ [][NextServe]_vars

(***************************************************************************)
(* C8 as claimed: a response to a request whose safest (shortest)          *)
(* generator raised carries the error feature for that route type, never a *)
(* route geometry.                                                         *)
(***************************************************************************)
C8_ErrorFeatureWhenGeneratorRaises ==
    \A r \in ReqIds :
        req[r].status = 200 =>
            /\ req[r].safeErr => req[r].safe = ErrorFeature
            /\ req[r].shortErr => req[r].short = ErrorFeature

(***************************************************************************)
(* C10 as claimed: the configuration error for a missing MAPBOX_TOKEN      *)
(* comes before any network call of the program.                           *)
(***************************************************************************)
C10_NoNetworkCallBeforeConfigError ==
    boot = "config_error" => mongoCalls = 0 /\ httpCalls = 0

(***************************************************************************)
(* C10 amended: without MAPBOX_TOKEN the program never serves and never    *)
(* attempts an HTTP call (geocoding, street network, routing): importing   *)
(* get_safest_path raises first.  Imported alone it raises before any      *)
(* network call; the service may have attempted its MongoDB connection     *)
(* before it.                                                              *)
(***************************************************************************)
C10_NoHttpCallWithoutToken ==
    ~env.token =>
        /\ httpCalls = 0
        /\ boot \in {"mongo", "import_safest", "config_error"}
        /\ \A r \in ReqIds : req[r].pc = "idle"
        /\ entry = "get_safest_path" => mongoCalls = 0

\* The service raised the configuration error after its MongoDB attempt.
C10_Witness ==
    /\ ~env.token
    /\ boot = "config_error"
    /\ entry = "app"
    /\ mongoCalls = 1

(***************************************************************************)
(* SpecRun: one run of get_safest_path on a graph, a loader result and a   *)
(* request drawn from the bounded families above.                          *)
(***************************************************************************)
IncidentSets ==
    {s \in SUBSET IncidentPool : Cardinality(s) <= MaxIncidents}

CameraSets == {s \in SUBSET CamSites : Cardinality(s) <= MaxCameras}

\* The edges of g that the edges table may have no row for (the mismatch that
\* lines 243-257 provide for): of 1->2 key 0, which may have a parallel edge,
\* and of 1->3, which has none.
NoRowSlots == {<<1, 2, 0>>, <<1, 3, 0>>}

MissingSets(g) ==
    {m \in SUBSET (Present(g) \cap NoRowSlots) :
        Cardinality(m) <= MaxMissing /\ m # Present(g)}

InitRun ==
    /\ FnIdle
    /\ CostIdle
    /\ GeoIdle
    /\ SrvIdle
    /\ runPc = "start"
    /\ origin \in Origins
    /\ dest \in Dests
    /\ G \in Graphs
    /\ noRow \in (IF Present(G) = {} THEN {{}} ELSE MissingSets(G))
    /\ edges = [e \in EdgeSlots |-> NoRow]
    /\ incidents \in IncidentSets
    /\ cameras \in CameraSets
    /\ weightOf = [e \in EdgeSlots |-> NoWeight]
    /\ route = NoRoute
    /\ runErr = "none"
    /\ artifact \in {NoArtifact, PrevArtifact}
    /\ artifact0 = artifact

RunFrame == UNCHANGED <<costVars, geoVars, srvVars, fnVars, origin, dest, G, noRow,
                        incidents, cameras, artifact0>>

\* Lines 198-206: the graph is fetched and its edges are tabulated.
FetchGraph ==
    /\ runPc = "start"
    /\ Present(G) # {}
    /\ runPc' = "loaded"
    /\ edges' = [e \in EdgeSlots |->
                   IF e \in Present(G) \ noRow
                   THEN [length |-> G[e], sum_inc |-> 0, cnt_cam |-> 0,
                         weight |-> NoWeight]
                   ELSE NoRow]
    /\ UNCHANGED <<weightOf, route, runErr, artifact>>
    /\ RunFrame

\* Lines 191-192: an endpoint given as text that ox.geocode cannot resolve, or
\* a pair that is not two numbers: ensure_latlon raises and the run ends.
EnsureRaises ==
    /\ runPc = "start"
    /\ runPc' = "failed"
    /\ runErr' = "GeocodeError"
    /\ UNCHANGED <<edges, weightOf, route, artifact>>
    /\ RunFrame

\* The provider cannot be reached or returns no edges: the run raises.
FetchRaises ==
    /\ runPc = "start"
    /\ runPc' = "failed"
    /\ runErr' = "GraphBuildError"
    /\ UNCHANGED <<edges, weightOf, route, artifact>>
    /\ RunFrame

\* Lines 209-236: the risk points are loaded and trimmed to the edges' bounds,
\* aggregated per row, and every row gets its cost.
EdgeSignals ==
    /\ runPc = "loaded"
    /\ LET rows == {e \in EdgeSlots : edges[e] # NoRow}
           inc  == trim({[xy |-> p.xy, t |-> p.t,
                          val |-> NightIncWeight(inc_weight(p.t))] :
                            p \in read_incidents_points(incidents)}, rows)
           cams == trim({[xy |-> c, val |-> 1] : c \in cameras}, rows)
           sums == counts_near_edges(rows, inc, R_INC, TRUE)
           cnts == counts_near_edges(rows, cams, R_CAMERA, cams # {})
       IN  edges' = [e \in EdgeSlots |->
                       IF e \in rows
                       THEN [length  |-> edges[e].length,
                             sum_inc |-> sums[e],
                             cnt_cam |-> NightCamCount(cnts[e]),
                             weight  |-> edge_cost(edges[e].length, sums[e],
                                                   NightCamCount(cnts[e]))]
                       ELSE NoRow]
    /\ runPc' = "costed"
    /\ UNCHANGED <<weightOf, route, runErr, artifact>>
    /\ RunFrame

\* Loading the risk data raises (lines 210-211).
LoadRiskRaises ==
    /\ runPc = "loaded"
    /\ runPc' = "failed"
    /\ runErr' = "RiskDataError"
    /\ UNCHANGED <<edges, weightOf, route, artifact>>
    /\ RunFrame

\* Lines 238-257: every edge of G gets its weight.
Propagate ==
    /\ runPc = "costed"
    /\ weightOf' = [e \in EdgeSlots |->
                      IF e \in Present(G) THEN propagate(G, edges, e) ELSE NoWeight]
    /\ runPc' = "weighted"
    /\ UNCHANGED <<edges, route, runErr, artifact>>
    /\ RunFrame

o_node == nearest_nodes(G, origin)
d_node == nearest_nodes(G, dest)

\* Lines 260-264: the search returns a route of at least two nodes.
SearchFinds ==
    /\ runPc = "weighted"
    /\ \E p \in shortest_paths(G, weightOf, o_node, d_node) :
          /\ ~route_too_short(p)
          /\ route' = p
    /\ runPc' = "routed"
    /\ UNCHANGED <<edges, weightOf, runErr, artifact>>
    /\ RunFrame

\* nx.shortest_path raises NetworkXNoPath: the destination cannot be reached.
SearchNoPath ==
    /\ runPc = "weighted"
    /\ shortest_paths(G, weightOf, o_node, d_node) = {}
    /\ runPc' = "failed"
    /\ runErr' = "NetworkXNoPath"
    /\ UNCHANGED <<edges, weightOf, route, artifact>>
    /\ RunFrame

\* Lines 263-264: the route has fewer than two nodes.
SearchNoRoute ==
    /\ runPc = "weighted"
    /\ \E p \in shortest_paths(G, weightOf, o_node, d_node) : route_too_short(p)
    /\ runPc' = "failed"
    /\ runErr' = "RuntimeError"
    /\ UNCHANGED <<edges, weightOf, route, artifact>>
    /\ RunFrame

\* Lines 266-287: the metrics are computed and the artifact is written.
Export ==
    /\ runPc = "routed"
    /\ artifact' = dump_artifact(artifact, Feature(G, weightOf, route))
    /\ runPc' = "done"
    /\ UNCHANGED <<edges, weightOf, route, runErr>>
    /\ RunFrame

NextRun ==
    \/ EnsureRaises
    \/ FetchGraph
    \/ FetchRaises
    \/ EdgeSignals
    \/ LoadRiskRaises
    \/ Propagate
    \/ SearchFinds
    \/ SearchNoPath
    \/ SearchNoRoute
    \/ Export

SpecRun == InitRun /\ [][NextRun]_vars

\* The states in which the search has the weights of G before it.
Weighted == runPc \in {"weighted", "routed", "done"}
Searched == runPc \in {"routed", "done"}
NoRisk   == incidents = {} /\ cameras = {}
OwnRow(e) == e \in Present(G) \ noRow

\* The nodes joined to a node of S by edges of g, in either direction.
RECURSIVE Component(_, _)
Component(g, S) ==
    LET T == S \cup {e[2] : e \in {x \in Present(g) : x[1] \in S}}
               \cup {e[1] : e \in {x \in Present(g) : x[2] \in S}}
    IN  IF T = S THEN S ELSE Component(g, T)

Disconnected ==
    /\ Present(G) # {}
    /\ d_node \notin Component(G, {o_node})

\* The states in which the rows have their aggregates and costs.
Costed == runPc \in {"costed", "weighted", "routed", "done"}

\* The incidents, of those given, that lie inside the bounds of the rows and
\* whose disk intersects row e.
Reaching(recs, e) ==
    {i \in recs :
        /\ InBounds(i.xy, {x \in EdgeSlots : edges[x] # NoRow})
        /\ Near(i.xy, R_INC, e)}

RECURSIVE SumWeight(_)
SumWeight(recs) ==
    IF recs = {} THEN 0
    ELSE LET i == CHOOSE x \in recs : TRUE
         IN  (IF i.age = NaT THEN NightIncWeight(20)
              ELSE NightIncWeight(inc_weight(i.age)))
             + SumWeight(recs \ {i})

(***************************************************************************)
(* C12 as claimed: an incident record whose timestamp text cannot be       *)
(* parsed is dropped by the loader and contributes to no row's aggregated  *)
(* incident weight: sum_inc is the sum over the records with a date.       *)
(***************************************************************************)
C12_UnparsableDropped ==
    Costed =>
        \A e \in EdgeSlots :
            edges[e] # NoRow =>
                edges[e].sum_inc =
                    SumWeight(Reaching({i \in incidents : i.age # NaT}, e))

(***************************************************************************)
(* C12: an incident record whose timestamp text cannot be parsed is kept:  *)
(* it becomes a risk point without a timestamp and carries the decay       *)
(* weight 1.0 (1.25 at night), which it adds to the aggregated incident    *)
(* weight of every row its 120 m disk intersects, when it lies inside the  *)
(* bounds of the rows (points outside are trimmed, dated or not).          *)
(***************************************************************************)
C12_UnparsableKeptNeutral ==
    Costed =>
        \A e \in EdgeSlots :
            edges[e] # NoRow =>
                edges[e].sum_inc = SumWeight(Reaching(incidents, e))

\* An undated incident on 3->4 that gives the row of 3->4 the weight 1.25.
C12_Witness ==
    /\ Costed
    /\ incidents = {[xy |-> <<3, 3>>, age |-> NaT]}
    /\ edges[<<3, 4, 0>>] # NoRow
    /\ edges[<<3, 4, 0>>].sum_inc = NightIncWeight(20)

(***************************************************************************)
(* C2 as claimed: when the search starts, every edge of G carries a weight *)
(* of at least 0.1, whether the weight came from the edge's own row, from  *)
(* the row of nearest length, or from the no-candidate fallback.           *)
(***************************************************************************)
C2_EveryWeightAtLeastFloor ==
    runPc = "weighted" =>
        \A e \in Present(G) : FracLeq(CostFloor, weightOf[e])

(***************************************************************************)
(* C5 as claimed: with no incidents and no cameras the weight of every     *)
(* edge equals the edge's length, whatever the length, and the route is a  *)
(* shortest-by-length path between the snapped nodes.                      *)
(***************************************************************************)
C5_WeightIsLengthWhateverTheLength ==
    NoRisk =>
        /\ Weighted =>
              \A e \in Present(G) : FracEq(weightOf[e], LengthFrac(G[e]))
        /\ Searched =>
              \A q \in PathsOf(G, o_node, d_node) :
                  PathLength(G, route) <= PathLength(G, q)

(***************************************************************************)
(* C5: with no incidents and no cameras (night mode on), the weight of     *)
(* every edge that has a row of its own is max(0.1, length): the edge's    *)
(* length when that is at least 0.1 m, and 0.1 otherwise; and when every   *)
(* edge has a row of its own and a length of at least 0.1 m, the route is  *)
(* a shortest-by-length path between the snapped nodes.                    *)
(***************************************************************************)
C5_NoRiskBaseline ==
    NoRisk =>
        /\ Weighted =>
              \A e \in Present(G) :
                  OwnRow(e) =>
                      IF G[e] >= 2
                      THEN FracEq(weightOf[e], LengthFrac(G[e]))
                      ELSE FracEq(weightOf[e], CostFloor)
        /\ (Searched /\ noRow = {} /\ \A e \in Present(G) : G[e] >= 2) =>
              \A q \in PathsOf(G, o_node, d_node) :
                  PathLength(G, route) <= PathLength(G, q)

\* A run without risk points on edges of 0.1 m and more, where the detour
\* 1->3->4->2 (0.3 m) is shorter than the direct edge (0.35 m) and is returned.
C5_Witness ==
    /\ NoRisk
    /\ runPc = "done"
    /\ noRow = {}
    /\ \A e \in Present(G) : G[e] >= 2
    /\ G[<<1, 2, 0>>] = 7
    /\ route = <<1, 3, 4, 2>>

(***************************************************************************)
(* C6 as claimed: with a single incident of age 0 whose 120 m disk         *)
(* intersects every edge of P1, the shortest-by-length path, and no edge   *)
(* of another path P2, and length(P2) < 2.2 * length(P1), the search       *)
(* returns P2 and not P1.                                                  *)
(***************************************************************************)
EdgesOn(p) ==
    {e \in Present(G) : \E i \in 1..(Len(p) - 1) : e[1] = p[i] /\ e[2] = p[i + 1]}

C6_RiskDeflection ==
    Searched =>
        \A s \in IncSites :
            \A P1, P2 \in PathsOf(G, o_node, d_node) :
                ( /\ incidents = {[xy |-> s, age |-> 0]}
                  /\ cameras = {}
                  /\ P1 # P2
                  /\ \A q \in PathsOf(G, o_node, d_node) :
                        PathLength(G, P1) <= PathLength(G, q)
                  /\ \A e \in EdgesOn(P1) : Near(s, R_INC, e)
                  /\ \A e \in EdgesOn(P2) : ~Near(s, R_INC, e)
                  /\ 10 * PathLength(G, P2) < 22 * PathLength(G, P1) )
                => route = P2

(***************************************************************************)
(* C14: after a successful run the artifact holds the one feature of that  *)
(* run: the node sequence of its route, the length and the cost of its     *)
(* trip; nothing of the artifact the run found is left.                    *)
(***************************************************************************)
C14_ArtifactIsThisRunsFeature ==
    runPc = "done" =>
        /\ artifact = Feature(G, weightOf, route)
        /\ artifact[2] = route
        /\ artifact # artifact0

\* A run that finds an earlier run's artifact and replaces it with the detour.
C14_Witness ==
    /\ runPc = "done"
    /\ artifact0 = PrevArtifact
    /\ route = <<1, 3, 4, 2>>
    /\ artifact = Feature(G, weightOf, route)

(***************************************************************************)
(* C15: when origin and destination snap to the same node, so that the     *)
(* path found has one node, the run fails with the no-route error; it      *)
(* never has a route and the artifact stays as it was when the run began.  *)
(***************************************************************************)
C15_NoRouteWhenSameNode ==
    (Present(G) # {} /\ o_node = d_node) =>
        /\ ~Searched
        /\ route = NoRoute
        /\ artifact = artifact0
        /\ (runPc = "failed" /\ weightOf # [e \in EdgeSlots |-> NoWeight])
              => runErr = "RuntimeError"

\* The graph holds 1->3 only: both ends of the request snap to node 1.
C15_Witness ==
    /\ Present(G) = {<<1, 3, 0>>}
    /\ o_node = 1
    /\ d_node = 1
    /\ runPc = "failed"
    /\ runErr = "RuntimeError"
    /\ artifact0 = PrevArtifact
    /\ artifact = PrevArtifact

(***************************************************************************)
(* C7: when origin and destination snap to nodes in separate connected     *)
(* components, the search raises the no-path error, the run never has a    *)
(* route, and the artifact stays as it was when the run started.           *)
(***************************************************************************)
C7_NoRouteWhenDisconnected ==
    Disconnected =>
        /\ ~Searched
        /\ route = NoRoute
        /\ artifact = artifact0
        /\ (runPc = "failed" /\ weightOf # [e \in EdgeSlots |-> NoWeight])
              => runErr = "NetworkXNoPath"

\* The graph holds 1->3 and 4->2 but not 3->4; an earlier run's artifact exists.
C7_Witness ==
    /\ Disconnected
    /\ runPc = "failed"
    /\ runErr = "NetworkXNoPath"
    /\ o_node = 1
    /\ d_node = 2
    /\ artifact0 = PrevArtifact

\* The text the provider finds nothing for.
NoResult(v) == v = "tX"

(***************************************************************************)
(* C17: a request whose start or end is a text the provider finds nothing  *)
(* for ends when its endpoints are resolved, with an error response; it    *)
(* never enters a generator, so it carries no feature and has written no   *)
(* artifact.                                                               *)
(***************************************************************************)
C17_UnresolvedEndpointIsFatal ==
    \A r \in ReqIds :
        ( /\ req[r].pc \notin {"idle", "resolve"}
          /\ NoResult(req[r].start) \/ NoResult(req[r].end) )
        => /\ req[r].pc = "done"
           /\ req[r].status = 400
           /\ req[r].safe = NoFeature
           /\ req[r].short = NoFeature
           /\ ~req[r].safeErr
           /\ ~req[r].shortErr

\* With the token set, a request from a place to an unknown text has ended with
\* 400 while no artifact exists.
C17_Witness ==
    /\ env.token
    /\ \E r \in ReqIds :
          /\ req[r].pc = "done"
          /\ req[r].start = "A"
          /\ NoResult(req[r].end)
          /\ req[r].status = 400
    /\ safeFile = NoArtifact
    /\ shortFile = NoArtifact

(***************************************************************************)
(* C20 as claimed: at night every incident adds 1.25 times its decay       *)
(* weight, once, to sum_inc of every row its 120 m disk intersects, and    *)
(* every camera adds 1.35, once, to cnt_cam of every row its 60 m disk     *)
(* intersects: cnt_cam is 1.35 times the number of intersecting cameras.   *)
(***************************************************************************)
C20_NightMultiplierOncePerPoint ==
    (IS_NIGHT /\ Costed) =>
        \A e \in EdgeSlots :
            edges[e] # NoRow =>
                /\ edges[e].sum_inc =
                       SumWeight({i \in incidents : Near(i.xy, R_INC, e)})
                /\ edges[e].cnt_cam =
                       NightCamCount(Cardinality({c \in cameras : Near(c, R_CAMERA, e)}))

(***************************************************************************)
(* C21 as claimed: no resolved risk point is discarded before aggregation. *)
(* Every incident whose 120 m disk intersects a row is part of that row's  *)
(* sum_inc, and every camera whose 60 m disk intersects a row is part of   *)
(* its cnt_cam, wherever the point lies relative to the bounding box of    *)
(* the edges.                                                              *)
(***************************************************************************)
C21_NoPointDiscarded ==
    Costed =>
        \A e \in EdgeSlots :
            edges[e] # NoRow =>
                /\ \A i \in incidents :
                       Near(i.xy, R_INC, e) => edges[e].sum_inc >= SumWeight({i})
                /\ \A c \in cameras :
                       Near(c, R_CAMERA, e) => edges[e].cnt_cam >= NightCamCount(1)

(***************************************************************************)
(* C22: every edge of the graph that has a row of its own in the table of  *)
(* computed costs gets exactly that row's cost as its weight, whatever the *)
(* rows of the parallel edges between the same two nodes hold.             *)
(***************************************************************************)
C22_ExactRowCostAssigned ==
    Weighted =>
        \A e \in Present(G) :
            edges[e] # NoRow => weightOf[e] = edges[e].weight

\* Both parallel edges 1->2 have a row, with different lengths and costs.
C22_Witness ==
    /\ Weighted
    /\ edges[<<1, 2, 0>>] # NoRow
    /\ edges[<<1, 2, 1>>] # NoRow
    /\ ~FracEq(edges[<<1, 2, 0>>].weight, edges[<<1, 2, 1>>].weight)
    /\ weightOf[<<1, 2, 1>>] = edges[<<1, 2, 1>>].weight
    /\ weightOf[<<1, 2, 0>>] = edges[<<1, 2, 0>>].weight

(***************************************************************************)
(* C24: an edge of the graph for whose node pair the table holds no row at *)
(* all gets its own raw length as weight, the run does not raise there,    *)
(* and after propagation every edge of the graph has a weight.             *)
(***************************************************************************)
C24_RawLengthWhenNoCandidate ==
    Weighted =>
        /\ runPc = "weighted" => runErr = "none"
        /\ \A e \in Present(G) :
              /\ weightOf[e] # NoWeight
              /\ Candidates(edges, e) = {} => weightOf[e] = LengthFrac(G[e])

\* The edge 1->3 is in the graph, the table has no row for (1, 3), and the
\* edge carries its length.
C24_Witness ==
    /\ runPc = "weighted"
    /\ G[<<1, 3, 0>>] # Absent
    /\ Candidates(edges, <<1, 3, 0>>) = {}
    /\ weightOf[<<1, 3, 0>>] = LengthFrac(G[<<1, 3, 0>>])
    /\ runErr = "none"

(***************************************************************************)
(* SpecProp: the weight propagation of lines 243-257 on one node pair with *)
(* three parallel edges, for every choice of their lengths, of the edges   *)
(* that have no row in the table, and of the incident weight on each row.  *)
(***************************************************************************)
PropSlots == {<<1, 2, 0>>, <<1, 2, 1>>, <<1, 2, 2>>}

PropLengths == {2, 5, 6}

PropSums == {0, NightIncWeight(20)}

PropTables(g) ==
    {[e \in PropSlots |->
         IF e \in has
         THEN [length |-> g[e], sum_inc |-> s[e], cnt_cam |-> 0,
               weight |-> edge_cost(g[e], s[e], 0)]
         ELSE NoRow] :
       has \in SUBSET PropSlots, s \in [PropSlots -> PropSums]}

InitProp ==
    /\ CostIdle
    /\ GeoIdle
    /\ SrvIdle
    /\ RunIdle
    /\ cnt = NoCall
    /\ dcy = NoCall
    /\ \E g \in [PropSlots -> PropLengths] :
         \E tbl \in PropTables(g) :
            prp = [pc |-> "call", g |-> g, tbl |-> tbl,
                   out |-> [e \in PropSlots |-> NoWeight]]

ApplyProp ==
    /\ prp.pc = "call"
    /\ prp' = [prp EXCEPT
                 !.pc = "returned",
                 !.out = [e \in PropSlots |-> propagate(prp.g, prp.tbl, e)]]
    /\ UNCHANGED <<costVars, geoVars, srvVars, runVars, cnt, dcy>>

NextProp == ApplyProp

SpecProp == InitProp /\ [][NextProp]_vars

(***************************************************************************)
(* C23: an edge without a row of its own, for whose node pair the table    *)
(* has at least one row, gets the cost of a row for that pair whose length *)
(* is closest to the edge's own length.                                    *)
(***************************************************************************)
C23_ClosestLengthRow ==
    prp.pc = "returned" =>
        \A e \in PropSlots :
            (prp.tbl[e] = NoRow /\ Candidates(prp.tbl, e) # {}) =>
                \E c \in Candidates(prp.tbl, e) :
                    /\ prp.out[e] = prp.tbl[c].weight
                    /\ \A c2 \in Candidates(prp.tbl, e) :
                          Off(prp.g, prp.tbl, e, c) <= Off(prp.g, prp.tbl, e, c2)

\* The edge of key 0, 0.25 m long, has no row; the rows of keys 1 and 2 are
\* 0.1 m and 0.3 m long, and the edge gets the cost of the row of key 2.
C23_Witness ==
    /\ prp.pc = "returned"
    /\ prp.tbl[<<1, 2, 0>>] = NoRow
    /\ prp.g[<<1, 2, 0>>] = 5
    /\ prp.tbl[<<1, 2, 1>>] # NoRow
    /\ prp.tbl[<<1, 2, 2>>] # NoRow
    /\ prp.tbl[<<1, 2, 1>>].length = 2
    /\ prp.tbl[<<1, 2, 2>>].length = 6
    /\ prp.out[<<1, 2, 0>>] = prp.tbl[<<1, 2, 2>>].weight
    /\ prp.out[<<1, 2, 0>>] # prp.tbl[<<1, 2, 1>>].weight

\* The keys of the parallel edges u->v of least weight, and the first of them.
MinKeys(u, v) ==
    {k \in Keys(G, u, v) :
        \A k2 \in Keys(G, u, v) :
            Scaled(weightOf[<<u, v, k>>]) <= Scaled(weightOf[<<u, v, k2>>])}

FirstMinKey(u, v) == SetMin(MinKeys(u, v))

\* The steps of the route: the positions of its consecutive node pairs.
Steps == 1..(Len(route) - 1)

(***************************************************************************)
(* C25: for each consecutive node pair of the route the exporter takes,    *)
(* of the parallel edges between them, one of least cost, and of several   *)
(* of least cost the first: the exported length and cost are the sums over *)
(* exactly those edges.                                                    *)
(***************************************************************************)
C25_MinCostParallelEdgeFirstOnTie ==
    runPc = "done" =>
        /\ artifact[3] =
             SeqSum([i \in Steps |->
                        G[<<route[i], route[i + 1],
                            FirstMinKey(route[i], route[i + 1])>>]], 1)
        /\ artifact[4] =
             SeqSum([i \in Steps |->
                        Scaled(weightOf[<<route[i], route[i + 1],
                                          FirstMinKey(route[i], route[i + 1])>>])], 1)

\* The route is the direct step 1->2; the parallel edge of key 0, 0.35 m long,
\* has no row and carries the cost of the row of key 1, 0.25 m long: equal
\* costs, and the exporter takes key 0.
C25_Witness ==
    /\ runPc = "done"
    /\ route = <<1, 2>>
    /\ G[<<1, 2, 0>>] = 7
    /\ G[<<1, 2, 1>>] = 5
    /\ weightOf[<<1, 2, 0>>] = weightOf[<<1, 2, 1>>]
    /\ artifact[3] = 7

(***************************************************************************)
(* C26: the exported metrics are taken over one selection of edges, one    *)
(* per consecutive node pair of the route (so one fewer than the route has *)
(* nodes): length_m is the sum of their lengths, cost the sum of their     *)
(* costs, and time_s is length_m divided by the walking speed.             *)
(***************************************************************************)
C26_MetricsOverSelectedEdges ==
    runPc = "done" =>
        /\ \E sel \in [Steps -> {0, 1}] :
              /\ \A i \in Steps : sel[i] \in Keys(G, route[i], route[i + 1])
              /\ artifact[3] =
                   SeqSum([i \in Steps |-> G[<<route[i], route[i + 1], sel[i]>>]], 1)
              /\ artifact[4] =
                   SeqSum([i \in Steps |->
                              Scaled(weightOf[<<route[i], route[i + 1], sel[i]>>])], 1)
        /\ Len(Trip(G, weightOf, route)) = Len(route) - 1
        /\ artifact[5].n * 20 * WALK_SPEED_MPS = 100 * artifact[3] * artifact[5].d
        /\ artifact[5].d > 0

\* The selected edge 1->2 of key 0 is 0.35 m long while its parallel edge is
\* shorter; the length exported is that of the selected edge.
C26_Witness ==
    /\ runPc = "done"
    /\ route = <<1, 2>>
    /\ G[<<1, 2, 0>>] = 7
    /\ G[<<1, 2, 1>>] = 5
    /\ artifact[3] = 7
    /\ artifact[4] = Scaled(weightOf[<<1, 2, 0>>])
    /\ artifact[5] = time_s(7)

(***************************************************************************)
(* C28: the cost written to the artifact is the least total cost over all  *)
(* paths from the snapped origin node to the snapped destination node,     *)
(* each step at the least weight of its parallel edges.                    *)
(***************************************************************************)
C28_ExportedCostIsSearchMinimum ==
    runPc = "done" =>
        /\ PathsOf(G, o_node, d_node) # {}
        /\ \A q \in PathsOf(G, o_node, d_node) :
              artifact[4] <= PathCost(G, weightOf, q)
        /\ \E q \in PathsOf(G, o_node, d_node) :
              artifact[4] = PathCost(G, weightOf, q)

\* Two routes compete and one step has parallel edges of different cost: the
\* direct step 1->2 by key 1 (0.25 m) beats key 0 (0.35 m) and the way round.
C28_Witness ==
    /\ runPc = "done"
    /\ NoRisk
    /\ noRow = {}
    /\ G[<<1, 2, 0>>] = 7
    /\ G[<<1, 2, 1>>] = 5
    /\ G[<<1, 3, 0>>] = 2 /\ G[<<3, 4, 0>>] = 2 /\ G[<<4, 2, 0>>] = 2
    /\ route = <<1, 2>>
    /\ artifact[4] = Scaled(LengthFrac(5))

(***************************************************************************)
(* C29: a run that fails before the file write (endpoint resolution, graph *)
(* fetch, risk loading, search) leaves the artifact as it found it, absent *)
(* if it was absent; the artifact changes only in a run that has finished, *)
(* and such a run has a route of two nodes at least that the search        *)
(* returned.                                                               *)
(***************************************************************************)
C29_FailedRunKeepsArtifact ==
    /\ runPc # "done" => artifact = artifact0
    /\ runErr # "none" => (runPc = "failed" /\ artifact = artifact0)
    /\ runPc = "done" =>
          /\ runErr = "none"
          /\ Len(route) >= 2
          /\ route \in shortest_paths(G, weightOf, o_node, d_node)

\* The risk loading raised in a run that found an earlier run's artifact.
C29_Witness ==
    /\ runPc = "failed"
    /\ runErr = "RiskDataError"
    /\ artifact0 = PrevArtifact
    /\ artifact = PrevArtifact
    /\ \E e \in EdgeSlots : edges[e] # NoRow

(***************************************************************************)
(* C30 as claimed: with two /route requests in flight, a response whose    *)
(* own safest generator succeeded and which carries a safest route carries *)
(* the route of its own start and end, never the one another request       *)
(* wrote to the shared artifact file.                                      *)
(***************************************************************************)
C30_OwnSafestRoute ==
    \A r \in ReqIds :
        (req[r].status = 200 /\ ~req[r].safeErr /\ IsRoute(req[r].safe)) =>
            req[r].safe = RouteOf(req[r].s, req[r].e)

====
